---- MODULE Spec2Model ----
(***************************************************************************)
(* Model of the Pulsar meta-instrument of PycQED                           *)
(* (pycqed/measurement/waveform_control/pulsar.py): the channel registry,  *)
(* the backend dispatch over the AWG5014 and HDAWG8 mixins, program_awgs,  *)
(* start and stop.                                                         *)
(*                                                                         *)
(* Strings of the source are kept where TLC can handle them.  A channel    *)
(* name, which the source builds as awg.name + '_' + id, is the pair       *)
(* <<awg.name, id>>; a name given in a channel_name_map is such a pair too *)
(* (<<"x", "">> is the name "x").                                          *)
(***************************************************************************)
EXTENDS Integers, Sequences, FiniteSets, TLC

\* ------------------------------------------------------------------------
\* The instruments that exist in the station, and their Python classes.
\* ------------------------------------------------------------------------
Instruments == {"T1", "H1", "U1"}

InstrClass(d) ==
    CASE d = "T1" -> "VirtualAWG5014"
      [] d = "H1" -> "VirtualAWG8"
      [] OTHER    -> "UHFQC"

None == "None"

\* _supportedAWGtypes of the two mixins
AWG5014_supportedAWGtypes == {"Tektronix_AWG5014", "VirtualAWG5014"}
HDAWG8_supportedAWGtypes == {"ZI_HDAWG8", "VirtualAWG8"}

\* The bases of class Pulsar in method-resolution order: a super() call
\* tries AWG5014Pulsar, then HDAWG8Pulsar, then Instrument, which has none
\* of the dispatched methods.
PulsarBases == <<"AWG5014Pulsar", "HDAWG8Pulsar">>

Supported(b) ==
    IF b = "AWG5014Pulsar" THEN AWG5014_supportedAWGtypes
                           ELSE HDAWG8_supportedAWGtypes

\* The mixins a super() chain visits for an object of class cls: each mixin
\* tests isinstance and passes on to the next when the test fails.
RECURSIVE VisitedFrom(_, _)
VisitedFrom(i, cls) ==
    IF i > Len(PulsarBases) THEN << >>
    ELSE IF cls \in Supported(PulsarBases[i]) THEN <<PulsarBases[i]>>
    ELSE <<PulsarBases[i]>> \o VisitedFrom(i + 1, cls)

Visited(cls) == VisitedFrom(1, cls)

\* The mixin that handles the object, or None when the chain reaches
\* Instrument (AttributeError).
Backend(cls) ==
    LET v == Visited(cls)
    IN IF cls \in Supported(v[Len(v)]) THEN v[Len(v)] ELSE None

\* ------------------------------------------------------------------------
\* Channel ids, in the order the mixins create them.
\* ------------------------------------------------------------------------
AWG5014Ids == <<"ch1", "ch1m1", "ch1m2", "ch2", "ch2m1", "ch2m2",
                "ch3", "ch3m1", "ch3m2", "ch4", "ch4m1", "ch4m2">>

HDAWG8Ids == <<"ch1", "ch1m", "ch2", "ch2m", "ch3", "ch3m", "ch4", "ch4m",
               "ch5", "ch5m", "ch6", "ch6m", "ch7", "ch7m", "ch8", "ch8m">>

IdsOf(b) == IF b = "AWG5014Pulsar" THEN AWG5014Ids ELSE HDAWG8Ids

Range(f) == {f[x] : x \in DOMAIN f}

EmptyMap == [x \in {} |-> <<"", "">>]

\* channel_name_map.get(id, awg.name + '_' + id)
ChannelName(awg, id, channel_name_map) ==
    IF id \in DOMAIN channel_name_map THEN channel_name_map[id]
                                      ELSE <<awg, id>>

\* Error values: the exception an operation ends with, "ok" when it returns.
ErrChannelDefined == "KeyError: Channel named already defined"
ErrAWGAdded == "KeyError: AWG already added to pulsar"
ErrDuplicateParameter == "KeyError: Duplicate parameter name"
ErrAttribute == "AttributeError"
ErrUnsupported == "TypeError: Unsupported AWG instrument"
ErrCodeword == "Exception: AWG5014 does not support codewords"
ErrResolve == "Exception in resolve_segment"
ErrStart == "Exception: AWG did not start in 10s"
ErrKey == "KeyError"

VARIABLES
    awgs,          \* self.awgs: names of the registered AWGs
    channels,      \* self.channels: channel names
    chan_awg,      \* the '<channel>_awg' parameters
    chan_id,       \* the '<channel>_id' parameters
    awg_params,    \* AWGs whose '<awg>_granularity' ... '<awg>_active'
                   \* parameters exist
    active,        \* the '<awg>_active' parameters
    master_awg,    \* the 'master_awg' parameter
    awgs_with_waveforms,    \* self._awgs_with_waveforms
    awgs_prequeried_state,  \* self._awgs_prequeried_state
    clocks,        \* the AWGs that have an entry in self._clocks
    pc,            \* where the running call stands; "idle" between calls
    sequence,      \* program_awgs: the sequence being programmed
    todo,          \* program_awgs: the AWGs still to program, in order
    uploaded,      \* AWGs that were sent a program by the latest
                   \* program_awgs call
    used_awgs,     \* start: the slaves still to poll, in iteration order
    good,          \* start: the flag of the polling loop
    elapsed,       \* start: time.time() - tstart in seconds, rounded up
    \* What the latest call of a Pulsar method did; every call starts from
    \* an empty record.
    visited,       \* AWGs it passed to _program_awg
    started,       \* AWGs whose start() it invoked, in the order of the calls
    polled,        \* slaves whose running state it queried
    reported,      \* slaves whose running-state query it saw answer True
    stopped,       \* AWGs whose stop() it invoked
    playing,       \* the AWGs whose start() was invoked by some call and
                   \* whose stop() was not invoked since
    last,          \* the method, and how the call ended
    query,         \* the latest read of a clock or an amplitude: the
                   \* parameter, the prequeried state it was made in, and
                   \* where the value came from
    \* The packer and the generators taken alone (SpecPack)
    given,         \* the arguments of the call
    result         \* what the call produced

registry == <<awgs, channels, chan_awg, chan_id, awg_params>>
prog_vars == <<awgs_with_waveforms, awgs_prequeried_state, clocks, sequence,
               todo, uploaded>>
start_vars == <<used_awgs, good, elapsed, started, reported>>
pack_vars == <<given, result>>

\* No function was called on its own, and nothing was produced yet
NoGiven == [fn |-> None]
NoResult == [err |-> None]

\* No clock or amplitude was read
NoQuery == [par |-> <<None, None>>, state |-> FALSE, src |-> None]

\* The record of a call that programs, starts and stops no AWG
NoStartStop ==
    /\ visited' = {}
    /\ used_awgs' = << >>
    /\ good' = FALSE
    /\ elapsed' = 0
    /\ started' = << >>
    /\ reported' = {}
    /\ stopped' = {}
    /\ UNCHANGED playing
    /\ polled' = {}

vars == <<awgs, channels, chan_awg, chan_id, awg_params, active, master_awg,
          awgs_with_waveforms, awgs_prequeried_state, clocks, pc, sequence,
          todo, uploaded, used_awgs, good, elapsed, visited, started,
          reported, stopped, playing, polled, last, query, given, result>>

\* ------------------------------------------------------------------------
\* _create_awg_parameters of a mixin: the loop over the channel ids.
\* Instrument.add_parameter raises KeyError for a parameter name that
\* exists, so the loop stops at the first channel whose '<name>_id'
\* parameter exists and keeps the channels added before it.
\* ------------------------------------------------------------------------
RECURSIVE CreateChannels(_, _, _, _, _)
CreateChannels(awg, ids, i, channel_name_map, acc) ==
    IF i > Len(ids) THEN [chs |-> acc, err |-> "ok"]
    ELSE LET name == ChannelName(awg, ids[i], channel_name_map)
         IN IF name \in channels \cup {c.name : c \in acc}
            THEN [chs |-> acc, err |-> ErrDuplicateParameter]
            ELSE CreateChannels(awg, ids, i + 1, channel_name_map,
                                acc \cup {[name |-> name, id |-> ids[i]]})

\* A faulty variant of define_checks: the test of the AWG's name is missing.
define_checks_no_awg_test(awg, channel_name_map) ==
    IF \E n \in Range(channel_name_map) : n \in channels
        THEN ErrChannelDefined
        ELSE "ok"

\* The two tests define_awg_channels begins with: no name of the map is a
\* channel, and the AWG is not registered.
define_checks(awg, channel_name_map) ==
    IF \E n \in Range(channel_name_map) : n \in channels
        THEN ErrChannelDefined
    ELSE IF awg \in awgs
        THEN ErrAWGAdded
    ELSE "ok"

\* define_awg_channels(awg, channel_name_map)
define_awg_channels(awg, channel_name_map) ==
    LET b == Backend(InstrClass(awg))
        fail(e) == /\ last' = [op |-> "define_awg_channels", awg |-> awg,
                               err |-> e]
                   /\ UNCHANGED <<registry, active>>
        r == CreateChannels(awg, IdsOf(b), 1, channel_name_map, {})
        new == {c.name : c \in r.chs}
        idOf(n) == (CHOOSE c \in r.chs : c.name = n).id
    IN
    /\ pc = "idle"
    /\ NoStartStop
    /\ UNCHANGED <<master_awg, prog_vars, pc>>
    /\ IF define_checks(awg, channel_name_map) # "ok"
           THEN fail(define_checks(awg, channel_name_map))
       ELSE IF b = None
           THEN fail(ErrAttribute)
       ELSE IF awg \in awg_params
           THEN fail(ErrDuplicateParameter)
       ELSE
           /\ awg_params' = awg_params \cup {awg}
           /\ active' = [active EXCEPT ![awg] = TRUE]
           /\ channels' = channels \cup new
           /\ chan_awg' = [n \in channels \cup new |->
                              IF n \in new THEN awg ELSE chan_awg[n]]
           /\ chan_id' = [n \in channels \cup new |->
                              IF n \in new THEN idOf(n) ELSE chan_id[n]]
           /\ awgs' = IF r.err = "ok" THEN awgs \cup {awg} ELSE awgs
           /\ last' = [op |-> "define_awg_channels", awg |-> awg,
                       err |-> r.err]
    /\ query' = NoQuery
    /\ UNCHANGED pack_vars

\* Setting the ManualParameter '<awg>_active'
set_active(awg, val) ==
    /\ pc = "idle"
    /\ awg \in awg_params
    /\ active' = [active EXCEPT ![awg] = val]
    /\ last' = [op |-> "set_active", awg |-> None, err |-> "ok"]
    /\ NoStartStop
    /\ UNCHANGED <<registry, master_awg, prog_vars, pc>>
    /\ query' = NoQuery
    /\ UNCHANGED pack_vars

\* ------------------------------------------------------------------------
\* Sequences.  The Sequence and Segment classes are consumed as resolved
\* data: a sequence is a list of segments, a segment maps the AWGs it has
\* elements on to these elements, and an element maps its codewords
\* ('no_codeword' when it is not codeword-branched) to the sample arrays
\* of its channel ids.  This is what Segment.waveforms(awgs=[name]) hands
\* to _program_awg.
\* ------------------------------------------------------------------------
Element(el, wfs) == [el |-> el, wfs |-> wfs]

ElPlain == Element("e1", "no_codeword" :> ("ch1" :> <<0, 1>>))
ElZero == Element("e2", "no_codeword" :> ("ch1" :> <<0, 0>>))
ElMarker == Element("e3", "no_codeword" :> ("ch1m" :> <<0, 1>>))
ElCodeword == Element("e4", ("cw0" :> ("ch1" :> <<0, 1>>))
                              @@ ("cw1" :> ("ch1" :> <<0, 0>>)))

NoSegment == [d \in {} |-> {}]

Sequences ==
    [ none     |-> <<NoSegment>>,
      plain    |-> <<("T1" :> {ElPlain}) @@ ("H1" :> {ElPlain})>>,
      t_only   |-> <<("T1" :> {ElPlain})>>,
      quiet    |-> <<("T1" :> {ElZero}) @@ ("H1" :> {ElMarker})>>,
      codeword |-> <<("T1" :> {ElPlain}) @@ ("H1" :> {ElPlain}),
                     ("T1" :> {ElCodeword}) @@ ("H1" :> {ElCodeword})>> ]

SequenceNames == DOMAIN Sequences

\* The elements of segment k of sequence s on AWG d (wfs[obj.name]); the
\* AWG is `not in wfs' when the segment has no entry for it.  The pulses of
\* a segment are on channels of the pulsar, so that only a registered AWG
\* has an entry.
InWfs(s, k, d) == d \in awgs /\ d \in DOMAIN Sequences[s][k]
Wfs(s, k, d) == Sequences[s][k][d]
SegmentsOn(s, d) == {k \in 1..Len(Sequences[s]) : InWfs(s, k, d)}
ElementsOn(s, d) == UNION {Wfs(s, k, d) : k \in SegmentsOn(s, d)}

\* cid[:3]
Group(cid) ==
    CASE cid \in {"ch1", "ch1m", "ch1m1", "ch1m2", "ch1_m1", "ch1_m2"} -> "ch1"
      [] cid \in {"ch2", "ch2m", "ch2m1", "ch2m2", "ch2_m1", "ch2_m2"} -> "ch2"
      [] cid \in {"ch3", "ch3m", "ch3m1", "ch3m2", "ch3_m1", "ch3_m2"} -> "ch3"
      [] cid \in {"ch4", "ch4m", "ch4m1", "ch4m2", "ch4_m1", "ch4_m2"} -> "ch4"
      [] cid \in {"ch5", "ch5m"} -> "ch5"
      [] cid \in {"ch6", "ch6m"} -> "ch6"
      [] cid \in {"ch7", "ch7m"} -> "ch7"
      [] OTHER -> "ch8"

\* numpy's array.any()
np_any(wf) == \E i \in 1..Len(wf) : wf[i] # 0

\* ---- AWG5014Pulsar._program_awg ---------------------------------------
\* The first loop over the segments: the AWG joins the set of AWGs with
\* waveforms at the first segment that has elements on it, and an element
\* with a codeword raises.
AWG5014_has_waveforms(s, d) == SegmentsOn(s, d) # {}

AWG5014_codeword_error(s, d) ==
    \E e \in ElementsOn(s, d) :
        Cardinality(DOMAIN e.wfs) > 1 \/ "no_codeword" \notin DOMAIN e.wfs

\* grps: the channel groups with a sample that is not zero, for a set S of
\* elements
AWG5014_grps_of(S) ==
    {Group(cid) : cid \in {c \in UNION {DOMAIN e.wfs["no_codeword"] : e \in S} :
        \E e \in S :
            c \in DOMAIN e.wfs["no_codeword"] /\ np_any(e.wfs["no_codeword"][c])}}

AWG5014_grps(s, d) == AWG5014_grps_of(ElementsOn(s, d))

\* A faulty variant of AWG5014_program_awg: the AWG joins the set of AWGs
\* with waveforms before the segments are looked at.
AWG5014_program_awg_added_first(s, d) ==
    IF ~AWG5014_has_waveforms(s, d)
        THEN [err |-> "ok", with_waveforms |-> TRUE, upload |-> FALSE]
    ELSE IF AWG5014_codeword_error(s, d)
        THEN [err |-> ErrCodeword, with_waveforms |-> TRUE, upload |-> FALSE]
    ELSE [err |-> "ok", with_waveforms |-> TRUE,
          upload |-> AWG5014_grps(s, d) # {}]

\* What the call does for AWG d: whether it ends with an exception, whether
\* the AWG was added to the set of AWGs with waveforms, and whether a file
\* was sent and loaded.
AWG5014_program_awg(s, d) ==
    IF ~AWG5014_has_waveforms(s, d)
        THEN [err |-> "ok", with_waveforms |-> FALSE, upload |-> FALSE]
    ELSE IF AWG5014_codeword_error(s, d)
        THEN [err |-> ErrCodeword, with_waveforms |-> TRUE, upload |-> FALSE]
    ELSE [err |-> "ok", with_waveforms |-> TRUE,
          upload |-> AWG5014_grps(s, d) # {}]

\* ---- HDAWG8Pulsar._program_awg ----------------------------------------
\* The codewords of an element that are processed: 'no_codeword' is
\* skipped when the element has codewords.
HDAWG8_codewords(e) ==
    IF DOMAIN e.wfs \ {"no_codeword"} # {}
        THEN DOMAIN e.wfs \ {"no_codeword"}
        ELSE DOMAIN e.wfs

\* ch_has_waveforms[cid], set for analog channels only
HDAWG8_ch_has_waveforms(s, d, cid) ==
    /\ cid \in {"ch1", "ch2", "ch3", "ch4", "ch5", "ch6", "ch7", "ch8"}
    /\ \E e \in ElementsOn(s, d) :
          \E cw \in HDAWG8_codewords(e) : cid \in DOMAIN e.wfs[cw]

\* The sub-sequencers (awg_nr 0..3, channels 2n+1 and 2n+2) that are
\* configured
HDAWG8_programmed(s, d) ==
    {n \in 0..3 :
        \/ HDAWG8_ch_has_waveforms(s, d, HDAWG8Ids[4 * n + 1])
        \/ HDAWG8_ch_has_waveforms(s, d, HDAWG8Ids[4 * n + 3])}

HDAWG8_program_awg(s, d) ==
    [err |-> "ok",
     with_waveforms |-> \E cid \in Range(HDAWG8Ids) :
                            HDAWG8_ch_has_waveforms(s, d, cid),
     upload |-> HDAWG8_programmed(s, d) # {}]

\* ---- Pulsar._program_awg: the super() chain -----------------------------
program_awg(s, d) ==
    LET b == Backend(InstrClass(d))
    IN IF b = "AWG5014Pulsar" THEN AWG5014_program_awg(s, d)
       ELSE IF b = "HDAWG8Pulsar" THEN HDAWG8_program_awg(s, d)
       ELSE [err |-> ErrUnsupported, with_waveforms |-> FALSE,
             upload |-> FALSE]

\* active_awgs()
active_awgs == {awg \in awgs : active[awg]}

\* All orders in which a Python set can be iterated
Orders(S) == {o \in [1..Cardinality(S) -> S] : Range(o) = S}

\* ---- Pulsar.program_awgs -----------------------------------------------
\* The call up to the prequery: last_sequence, the reset of the set of AWGs
\* with waveforms, the AWGs to program ('all': the active AWGs).
\* When the calls of program_awgs are followed (given.fn = "program_awgs"),
\* a call notes its arguments, with the order awgs is iterated in, and what
\* the call before it had left.
Followed == given.fn = "program_awgs"

LeftBehind ==
    [op |-> last.op, awg |-> last.awg, err |-> last.err, given |-> given,
     awgs_with_waveforms |-> awgs_with_waveforms, uploaded |-> uploaded,
     visited |-> visited]

Follow(s, order) ==
    /\ given' = IF Followed
                   THEN [fn |-> "program_awgs", sequence |-> s, awgs |-> order]
                   ELSE given
    /\ result' = IF Followed THEN LeftBehind ELSE result

\* A faulty variant of program_awgs_begin: a sequence that is the one
\* programmed last is taken to be on the AWGs already and no AWG is
\* programmed again.
program_awgs_begin_if_new(s, awgs_arg) ==
    /\ pc = "idle"
    /\ sequence' = s
    /\ awgs_with_waveforms' = {}
    /\ uploaded' = {}
    /\ \E order \in IF awgs_arg = <<"all">> THEN Orders(active_awgs)
                                            ELSE {awgs_arg} :
          /\ todo' = IF s = sequence THEN << >> ELSE order
          /\ Follow(s, order)
    /\ pc' = "prequery"
    /\ last' = [op |-> "program_awgs", awg |-> None, err |-> "running"]
    /\ NoStartStop
    /\ UNCHANGED <<registry, active, master_awg, awgs_prequeried_state,
                   clocks>>
    /\ query' = NoQuery

program_awgs_begin(s, awgs_arg) ==
    /\ pc = "idle"
    /\ sequence' = s
    /\ awgs_with_waveforms' = {}
    /\ uploaded' = {}
    /\ IF awgs_arg = <<"all">>
          THEN todo' \in Orders(active_awgs)
          ELSE todo' = awgs_arg
    /\ pc' = "prequery"
    /\ last' = [op |-> "program_awgs", awg |-> None, err |-> "running"]
    /\ NoStartStop
    /\ UNCHANGED <<registry, active, master_awg, awgs_prequeried_state,
                   clocks>>
    /\ query' = NoQuery
    /\ Follow(s, todo')

\* AWGs_prequeried(True): the clock of every registered AWG and the
\* amplitude of every channel are read, then the state is switched on.
AWGs_prequeried_True ==
    /\ pc = "prequery"
    /\ clocks' = awgs
    /\ awgs_prequeried_state' = TRUE
    /\ pc' = "resolve"
    /\ UNCHANGED <<registry, active, master_awg, awgs_with_waveforms,
                   sequence, todo, uploaded, visited, start_vars, stopped, playing,
                   polled,
                   last>>
    /\ UNCHANGED <<query, pack_vars>>

\* seg.resolve_segment() for every segment and sequence.sequence_for_awg():
\* code of the timing resolver, which returns or raises.
resolve_segments(ok) ==
    /\ pc = "resolve"
    /\ IF ok
          THEN /\ pc' = "program"
               /\ UNCHANGED <<todo, last>>
          ELSE /\ pc' = "idle"
               /\ todo' = << >>
               /\ last' = [op |-> "program_awgs", awg |-> None,
                           err |-> ErrResolve]
    /\ UNCHANGED <<registry, active, master_awg, awgs_with_waveforms,
                   awgs_prequeried_state, clocks, sequence, uploaded,
                   visited, start_vars, stopped, playing,
                   polled>>
    /\ UNCHANGED <<query, pack_vars>>

\* One turn of `for awg in awgs': self._program_awg(obj, sequence)
program_awgs_step ==
    /\ pc = "program"
    /\ todo # << >>
    /\ LET awg == Head(todo)
           r == program_awg(sequence, awg)
       IN /\ awgs_with_waveforms' =
                 IF r.with_waveforms THEN awgs_with_waveforms \cup {awg}
                                     ELSE awgs_with_waveforms
          /\ uploaded' = IF r.upload THEN uploaded \cup {awg} ELSE uploaded
          /\ visited' = visited \cup {awg}
          /\ IF r.err = "ok"
                THEN /\ pc' = "program"
                     /\ todo' = Tail(todo)
                     /\ UNCHANGED last
                ELSE /\ pc' = "idle"
                     /\ todo' = << >>
                     /\ last' = [op |-> "program_awgs", awg |-> awg,
                                 err |-> r.err]
    /\ UNCHANGED <<registry, active, master_awg, awgs_prequeried_state,
                   clocks, sequence, start_vars, stopped, playing,
                   polled>>
    /\ UNCHANGED <<query, pack_vars>>

\* The end of the loop: AWGs_prequeried(False)
program_awgs_end ==
    /\ pc = "program"
    /\ todo = << >>
    /\ awgs_prequeried_state' = FALSE
    /\ pc' = "idle"
    /\ last' = [op |-> "program_awgs", awg |-> None, err |-> "ok"]
    /\ UNCHANGED <<registry, active, master_awg, awgs_with_waveforms, clocks,
                   sequence, todo, uploaded, visited, start_vars, stopped, playing,
                   polled>>
    /\ UNCHANGED <<query, pack_vars>>

\* ---- Pulsar.start ------------------------------------------------------
\* The timeout of the polling loop, in seconds
StartTimeout == 10

\* The most the clock advances during one turn of the polling loop
\* (the running-state query and the sleep), in seconds
MaxAdvance == 2

Min(a, b) == IF a < b THEN a ELSE b

\* used_awgs = set(self.active_awgs()) & awgs_with_waveforms
UsedAwgs == active_awgs \cap awgs_with_waveforms

\* The call up to tstart = time.time(): without a master every used AWG is
\* started; with a master every used AWG but the master is.
start_begin ==
    /\ pc = "idle"
    /\ visited' = {}
    /\ reported' = {}
    /\ stopped' = {}
    /\ good' = FALSE
    /\ elapsed' = 0
    /\ IF master_awg = None
          THEN /\ started' \in Orders(UsedAwgs)
               /\ used_awgs' = << >>
               /\ pc' = "idle"
               /\ last' = [op |-> "start", awg |-> None, err |-> "ok"]
          ELSE /\ started' \in Orders(UsedAwgs \ {master_awg})
               /\ used_awgs' = started'
               /\ pc' = "poll"
               /\ last' = [op |-> "start", awg |-> None, err |-> "running"]
    /\ playing' = playing \cup Range(started')
    /\ polled' = {}
    /\ UNCHANGED <<registry, active, master_awg, prog_vars>>
    /\ query' = NoQuery
    /\ UNCHANGED pack_vars

\* A faulty variant of start_poll: the clock stands still, as if the loop
\* did not sleep and compared against a time read once.
start_poll_clock_stands(running, advance) ==
    /\ pc = "poll"
    /\ used_awgs # << >>
    /\ ~(good \/ elapsed > StartTimeout)
    /\ good' = running
    /\ reported' = IF running THEN reported \cup {Head(used_awgs)}
                              ELSE reported
    /\ elapsed' = elapsed
    /\ UNCHANGED <<registry, active, master_awg, prog_vars, pc, used_awgs,
                   visited, started, stopped, playing, last>>
    /\ polled' = polled \cup {Head(used_awgs)}
    /\ UNCHANGED <<query, pack_vars>>

\* One turn of `while not (good or time.time() > tstart + 10)': the AWG is
\* asked whether it runs (the answer is the hardware's), and the loop sleeps
\* when it does not.
start_poll(running, advance) ==
    /\ pc = "poll"
    /\ used_awgs # << >>
    /\ ~(good \/ elapsed > StartTimeout)
    /\ good' = running
    /\ reported' = IF running THEN reported \cup {Head(used_awgs)}
                              ELSE reported
    /\ elapsed' = Min(elapsed + advance, StartTimeout + 1)
    /\ UNCHANGED <<registry, active, master_awg, prog_vars, pc, used_awgs,
                   visited, started, stopped, playing, last>>
    /\ polled' = polled \cup {Head(used_awgs)}
    /\ UNCHANGED <<query, pack_vars>>

\* A faulty variant of start_next: a slave that did not report in time is
\* passed over.
start_next_no_raise ==
    /\ pc = "poll"
    /\ used_awgs # << >>
    /\ good \/ elapsed > StartTimeout
    /\ used_awgs' = Tail(used_awgs)
    /\ good' = FALSE
    /\ UNCHANGED <<registry, active, master_awg, prog_vars, pc, elapsed,
                   visited, started, reported, stopped, playing,
                   polled, last>>
    /\ UNCHANGED <<query, pack_vars>>

\* The end of the while loop for one slave: `if not good: raise', else the
\* next slave.
start_next ==
    /\ pc = "poll"
    /\ used_awgs # << >>
    /\ good \/ elapsed > StartTimeout
    /\ IF good
          THEN /\ used_awgs' = Tail(used_awgs)
               /\ good' = FALSE
               /\ UNCHANGED <<pc, elapsed, last>>
          ELSE /\ pc' = "idle"
               /\ last' = [op |-> "start", awg |-> Head(used_awgs),
                           err |-> ErrStart]
               /\ used_awgs' = << >>
               /\ elapsed' = 0
               /\ UNCHANGED good
    /\ UNCHANGED <<registry, active, master_awg, prog_vars, visited, started,
                   reported, stopped, playing, polled>>
    /\ UNCHANGED <<query, pack_vars>>

\* self._start_awg(self.master_awg())
start_master ==
    /\ pc = "poll"
    /\ used_awgs = << >>
    /\ started' = Append(started, master_awg)
    /\ playing' = playing \cup {master_awg}
    /\ UNCHANGED polled
    /\ pc' = "idle"
    /\ elapsed' = 0
    /\ last' = [op |-> "start", awg |-> None, err |-> "ok"]
    /\ UNCHANGED <<registry, active, master_awg, prog_vars, used_awgs, good,
                   visited, reported, stopped>>
    /\ UNCHANGED <<query, pack_vars>>

\* ---- Pulsar.stop -------------------------------------------------------
\* A faulty variant of stop: every active AWG is stopped.
stop_all_active ==
    /\ pc = "idle"
    /\ stopped' = active_awgs
    /\ playing' = playing \ active_awgs
    /\ polled' = {}
    /\ visited' = {}
    /\ used_awgs' = << >>
    /\ good' = FALSE
    /\ elapsed' = 0
    /\ started' = << >>
    /\ reported' = {}
    /\ last' = [op |-> "stop", awg |-> None, err |-> "ok"]
    /\ UNCHANGED <<registry, active, master_awg, prog_vars, pc>>
    /\ query' = NoQuery
    /\ UNCHANGED pack_vars

stop ==
    /\ pc = "idle"
    /\ stopped' = UsedAwgs
    /\ playing' = playing \ UsedAwgs
    /\ polled' = {}
    /\ visited' = {}
    /\ used_awgs' = << >>
    /\ good' = FALSE
    /\ elapsed' = 0
    /\ started' = << >>
    /\ reported' = {}
    /\ last' = [op |-> "stop", awg |-> None, err |-> "ok"]
    /\ UNCHANGED <<registry, active, master_awg, prog_vars, pc>>
    /\ query' = NoQuery
    /\ UNCHANGED pack_vars

\* ---- Pulsar.clock(awg=...) and Pulsar._is_awg_running ------------------
\* How the call ends for the instrument named awg
clock_result(awg) ==
    IF awgs_prequeried_state
        THEN IF awg \in clocks THEN "ok" ELSE ErrKey
    ELSE IF Backend(InstrClass(awg)) = None THEN ErrUnsupported
    ELSE "ok"

is_awg_running_result(awg) ==
    IF Backend(InstrClass(awg)) = None THEN ErrUnsupported ELSE "ok"

\* Where the value of clock(awg=awg) comes from: self._clocks in the
\* prequeried state, the driver's clock_freq() otherwise.
clock_source(awg) ==
    IF clock_result(awg) # "ok" THEN "error"
    ELSE IF awgs_prequeried_state THEN "clocks"
    ELSE "hardware"

clock(awg) ==
    /\ pc = "idle"
    /\ last' = [op |-> "clock", awg |-> awg, err |-> clock_result(awg)]
    /\ query' = [par |-> <<"clock", awg>>, state |-> awgs_prequeried_state,
                 src |-> clock_source(awg)]
    /\ NoStartStop
    /\ UNCHANGED <<registry, active, master_awg, prog_vars, pc>>
    /\ UNCHANGED pack_vars

\* clock(awg=awg) called while program_awgs runs (by the code that resolves
\* the segments and generates the waveforms)
clock_in_call(awg) ==
    /\ pc \in {"resolve", "program"}
    /\ query' = [par |-> <<"clock", awg>>, state |-> awgs_prequeried_state,
                 src |-> clock_source(awg)]
    /\ UNCHANGED <<registry, active, master_awg, prog_vars, pc, visited,
                   start_vars, stopped, playing,
                   polled, last, pack_vars>>

\* ---- The '<channel>_amp' parameters ------------------------------------
\* Where the getter of '<channel>_amp' takes the value from: `hardware' is
\* obj.get(...), `latest' is obj.parameters[...].get_latest(), `constant'
\* is the 1 of an HDAWG8 marker channel.
AnalogIds == {"ch1", "ch2", "ch3", "ch4", "ch5", "ch6", "ch7", "ch8"}

amp_source(c) ==
    LET b == Backend(InstrClass(chan_awg[c]))
        analog == chan_id[c] \in AnalogIds
    IN IF b = "AWG5014Pulsar"
          THEN IF analog
                  THEN IF awgs_prequeried_state THEN "latest" ELSE "hardware"
                  ELSE IF awgs_prequeried_state THEN "hardware" ELSE "latest"
          ELSE IF analog
                  THEN IF awgs_prequeried_state THEN "latest" ELSE "hardware"
                  ELSE "constant"

\* self.get(c + '_amp'), between calls or while program_awgs runs (as
\* _awg5014_chan_cfg does for every channel of the AWG)
get_amp(c) ==
    /\ pc \in {"idle", "resolve", "program"}
    /\ c \in channels
    /\ query' = [par |-> <<"amp", c>>, state |-> awgs_prequeried_state,
                 src |-> amp_source(c)]
    /\ UNCHANGED <<registry, active, master_awg, prog_vars, pc, visited,
                   start_vars, stopped, playing,
                   polled, last, pack_vars>>

is_awg_running(awg) ==
    /\ pc = "idle"
    /\ last' = [op |-> "_is_awg_running", awg |-> awg,
                err |-> is_awg_running_result(awg)]
    /\ NoStartStop
    /\ UNCHANGED <<registry, active, master_awg, prog_vars, pc>>
    /\ query' = NoQuery
    /\ UNCHANGED pack_vars

\* ------------------------------------------------------------------------
\* _program_awg taken alone: what it builds from the elements of one AWG.
\* E is the list of the elements of the AWG, one segment each, in the order
\* of sequence.segments, which is also the order of
\* sequence.awg_sequence[obj.name].
\* ------------------------------------------------------------------------
Max(S) == CHOOSE x \in S : \A y \in S : y <= x

\* np.zeros(n) and np.pad(wf, (0, n - len(wf)), 'constant')
np_zeros(n) == [i \in 1..n |-> 0]
np_pad(wf, n) == wf \o np_zeros(n - Len(wf))

\* The last index of E whose element is named el: a later entry of a dict
\* replaces an earlier one with the same key
LastNamed(E, el) == Max({k \in DOMAIN E : E[k].el = el})

\* ---- AWG5014Pulsar._program_awg: packing and the sequence table --------
\* _awg5014_group_ids(cid): [cid[:3], cid[:3] + '_m1', cid[:3] + '_m2']
AWG5014_group_ids(grp) ==
    CASE grp = "ch1" -> <<"ch1", "ch1_m1", "ch1_m2">>
      [] grp = "ch2" -> <<"ch2", "ch2_m1", "ch2_m2">>
      [] grp = "ch3" -> <<"ch3", "ch3_m1", "ch3_m2">>
      [] OTHER       -> <<"ch4", "ch4_m1", "ch4_m2">>

\* maxlen: the longest array of the element, over all its channel ids
AWG5014_maxlen(e) ==
    Max({Len(e.wfs["no_codeword"][c]) : c \in DOMAIN e.wfs["no_codeword"]})

\* grp_wfs: for each id of the group, the array of the element under that
\* id, zeros when it has none, padded to maxlen
AWG5014_grp_wfs(e, grp) ==
    LET cid_wfs == e.wfs["no_codeword"]
        maxlen == AWG5014_maxlen(e)
    IN [cid \in Range(AWG5014_group_ids(grp)) |->
           np_pad(IF cid \in DOMAIN cid_wfs THEN cid_wfs[cid]
                                            ELSE np_zeros(maxlen),
                  maxlen)]

\* obj.pack_waveform(wf, m1, m2) of the driver: one blob of the three
pack_waveform(wf, m1, m2) == [wf |-> wf, m1 |-> m1, m2 |-> m2]

\* packed_waveforms: wfname = el + '_' + grp is the pair <<el, grp>>
AWG5014_packed_waveforms(E, grps) ==
    [wfname \in {<<E[k].el, grp>> : k \in DOMAIN E, grp \in grps} |->
        LET g == AWG5014_grp_wfs(E[LastNamed(E, wfname[1])], wfname[2])
            ids == AWG5014_group_ids(wfname[2])
        IN pack_waveform(g[ids[1]], g[ids[2]], g[ids[3]])]

\* wfname_l, one list per group, and nrep_l, goto_l, wait_l
AWG5014_wfname_l(E, grps) ==
    [grp \in grps |-> [k \in DOMAIN E |-> <<E[k].el, grp>>]]

AWG5014_nrep_l(E) == [k \in DOMAIN E |-> 1]
AWG5014_goto_l(E) == [k \in DOMAIN E |-> IF k = Len(E) THEN 1 ELSE 0]
AWG5014_wait_l(E) == [k \in DOMAIN E |-> 1]

\* The parameters of the instrument that _program_awg saves and puts back:
\* the offsets of the four analog channels and the low and high levels of
\* the eight markers
AWG5014_offset_pars == {"ch1_offset", "ch2_offset", "ch3_offset", "ch4_offset"}
AWG5014_marker_pars ==
    {"ch1_m1_low", "ch1_m2_low", "ch2_m1_low", "ch2_m2_low",
     "ch3_m1_low", "ch3_m2_low", "ch4_m1_low", "ch4_m2_low",
     "ch1_m1_high", "ch1_m2_high", "ch2_m1_high", "ch2_m2_high",
     "ch3_m1_high", "ch3_m2_high", "ch4_m1_high", "ch4_m2_high"}

\* A faulty variant of AWG5014_levels_after: the offsets are not put back.
AWG5014_levels_after_markers_only(levels, file_levels, loaded) ==
    LET old_vals == [par \in AWG5014_marker_pars |-> levels[par]]
        after_load == IF loaded THEN file_levels ELSE levels
    IN [par \in DOMAIN levels |->
           IF par \in AWG5014_marker_pars THEN old_vals[par]
                                           ELSE after_load[par]]

\* The values of these parameters on the instrument when _program_awg
\* returns: old_vals and prev_offsets are read, obj.load_awg_file leaves
\* the values of the file when a file is loaded, and the saved values are
\* set again
AWG5014_levels_after(levels, file_levels, loaded) ==
    LET old_vals == [par \in AWG5014_marker_pars |-> levels[par]]
        prev_offsets == [par \in AWG5014_offset_pars |-> levels[par]]
        after_load == IF loaded THEN file_levels ELSE levels
    IN [par \in DOMAIN levels |->
           IF par \in AWG5014_offset_pars THEN prev_offsets[par]
           ELSE IF par \in AWG5014_marker_pars THEN old_vals[par]
           ELSE after_load[par]]

\* The elements as a set, and the call on them
ElementSet(E) == {E[k] : k \in DOMAIN E}

AWG5014_program_awg_alone(E) ==
    IF \E e \in ElementSet(E) :
           Cardinality(DOMAIN e.wfs) > 1 \/ "no_codeword" \notin DOMAIN e.wfs
        THEN [err |-> ErrCodeword, upload |-> FALSE]
    ELSE LET grps == AWG5014_grps_of(ElementSet(E))
         IN [err |-> "ok",
             upload |-> grps # {},
             grps |-> grps,
             packed_waveforms |-> AWG5014_packed_waveforms(E, grps),
             wfname_l |-> AWG5014_wfname_l(E, grps),
             nrep_l |-> AWG5014_nrep_l(E),
             goto_l |-> AWG5014_goto_l(E),
             wait_l |-> AWG5014_wait_l(E)]

\* ---- AWG5014Pulsar._program_awg_old ------------------------------------
\* The function takes the elements of the sequence (sequence.elements, each
\* with a name, a waveform name, repetitions, a goto target and a trigger
\* wait), their arrays el_wfs, the number sequence.element_count() returns,
\* and loop.
MaxElementCount == 8000
MaxRepetitions == 65536

ErrRepetitions == "The number of repetitions ... are out of range"
ErrElementIndex == "element_index: no element of that name"

\* sequence.element_index(name): the index in the table, counted from 1, of
\* the element called name; 0 stands for the failure when there is none
element_index(elements, name) ==
    IF \E k \in DOMAIN elements : elements[k].name = name
        THEN CHOOSE k \in DOMAIN elements :
                 /\ elements[k].name = name
                 /\ \A j \in DOMAIN elements : elements[j].name = name => k <= j
        ELSE 0

\* grps: the group of every channel id of every element, non-zero or not
AWG5014_old_grps(el_wfs) ==
    {Group(cid) : cid \in UNION {DOMAIN el_wfs[el] : el \in DOMAIN el_wfs}}

\* grp_wfs of one element, with maxlen starting at 1
AWG5014_old_grp_wfs(cid_wfs, grp) ==
    LET maxlen == Max({1} \cup {Len(cid_wfs[c]) : c \in DOMAIN cid_wfs})
    IN [cid \in Range(AWG5014_group_ids(grp)) |->
           np_pad(IF cid \in DOMAIN cid_wfs THEN cid_wfs[cid]
                                            ELSE np_zeros(maxlen),
                  maxlen)]

AWG5014_old_packed_waveforms(el_wfs, grps) ==
    [wfname \in (DOMAIN el_wfs) \X grps |->
        LET g == AWG5014_old_grp_wfs(el_wfs[wfname[1]], wfname[2])
            ids == AWG5014_group_ids(wfname[2])
        IN pack_waveform(g[ids[1]], g[ids[2]], g[ids[3]])]

\* The first element the loop over sequence.elements raises at, 0 when it
\* raises at none
AWG5014_old_raises_at(elements) ==
    LET bad == {k \in DOMAIN elements :
                   \/ elements[k].repetitions < 1
                   \/ elements[k].repetitions > MaxRepetitions
                   \/ /\ elements[k].goto_target # None
                      /\ element_index(elements, elements[k].goto_target) = 0}
    IN IF bad = {} THEN 0 ELSE CHOOSE k \in bad : \A j \in bad : k <= j

\* goto_l before and after 'if loop and len(goto_l) > 0: goto_l[-1] = 1'
AWG5014_old_goto_targets(elements) ==
    [k \in DOMAIN elements |->
        IF elements[k].goto_target # None
            THEN element_index(elements, elements[k].goto_target)
            ELSE 0]

AWG5014_old_goto_l(elements, loop) ==
    [k \in DOMAIN elements |->
        IF loop /\ k = Len(elements) THEN 1
                                     ELSE AWG5014_old_goto_targets(elements)[k]]

AWG5014_program_awg_old(elements, el_wfs, element_count, loop) ==
    LET grps == AWG5014_old_grps(el_wfs)
        at == AWG5014_old_raises_at(elements)
        rep == elements[at].repetitions
    IN IF element_count > MaxElementCount
           THEN [err |-> "ok", upload |-> FALSE, returned |-> None]
       ELSE IF at # 0
           THEN [err |-> IF rep < 1 \/ rep > MaxRepetitions
                            THEN ErrRepetitions ELSE ErrElementIndex,
                 upload |-> FALSE, returned |-> None]
       ELSE [err |-> "ok",
             upload |-> grps # {},
             returned |-> IF grps # {} THEN "awg_file" ELSE None,
             grps |-> grps,
             packed_waveforms |-> AWG5014_old_packed_waveforms(el_wfs, grps),
             wfname_l |-> [grp \in grps |->
                              [k \in DOMAIN elements |->
                                  <<elements[k].wfname, grp>>]],
             nrep_l |-> [k \in DOMAIN elements |-> elements[k].repetitions],
             goto_l |-> AWG5014_old_goto_l(elements, loop),
             wait_l |-> [k \in DOMAIN elements |->
                            IF elements[k].trigger_wait THEN 1 ELSE 0]]

\* ---- Names: strings as lists of characters -----------------------------
Letters == {"a", "b", "c", "d", "e", "f", "g", "h", "i", "j", "k", "l", "m",
            "n", "o", "p", "q", "r", "s", "t", "u", "v", "w", "x", "y", "z",
            "A", "B", "C", "D", "E", "F", "G", "H", "I", "J", "K", "L", "M",
            "N", "O", "P", "Q", "R", "S", "T", "U", "V", "W", "X", "Y", "Z"}
Digits == <<"1", "2", "3", "4", "5", "6", "7", "8">>

\* str.isalnum() of one character
isalnum(c) == c \in Letters \cup Range(Digits) \cup {"0", "9"}

\* simplify_name(s): s[i] = '_' if s[i].isalnum() or s[i] == '-' else s[i]
simplify_name(str) ==
    [i \in DOMAIN str |-> IF isalnum(str[i]) \/ str[i] = "-" THEN "_"
                                                              ELSE str[i]]

\* The characters of an element name (the names used are one character
\* long) and of an HDAWG8 channel id ('ch3', 'ch3m')
ElChars(el) == <<el>>

CidChars(cid) ==
    LET i == CHOOSE k \in DOMAIN HDAWG8Ids : HDAWG8Ids[k] = cid
    IN <<"c", "h", Digits[(i + 1) \div 2]>>
          \o (IF i % 2 = 0 THEN <<"m">> ELSE << >>)

\* obj._devname
DevName == <<"d", "e", "v", "8">>

\* wf_name(el, chid, chmid, devname, marker_ch)
wf_name(el, chid, chmid, devname, marker_ch) ==
    LET quoted(cid) == simplify_name(<<"\"">> \o devname \o <<"_">>
                           \o ElChars(el) \o <<"_">> \o CidChars(cid)
                           \o <<"\"">>)
    IN IF marker_ch THEN quoted(chid) \o <<" ", "+", " ">> \o quoted(chmid)
                    ELSE quoted(chid)

\* None where a waveform name is expected
NoName == << >>

RECURSIVE ConcatAll(_)
ConcatAll(ss) == IF ss = << >> THEN << >> ELSE Head(ss) \o ConcatAll(Tail(ss))

\* ---- HDAWG8Pulsar._program_awg: one sub-sequencer awg_nr ----------------
\* [ch1id, ch1mid, ch2id, ch2mid] of awg_nr n
HDAWG8_cids(n) == SubSeq(HDAWG8Ids, 4 * n + 1, 4 * n + 4)

\* The codewords in the order the dict of an element holds them
CwOrder == <<"no_codeword", "cw0", "cw1">>

\* The codewords of e that hold data for cid, among those processed
HDAWG8_cws_with(e, cid) ==
    {i \in DOMAIN CwOrder :
        /\ CwOrder[i] \in HDAWG8_codewords(e)
        /\ cid \in DOMAIN e.wfs[CwOrder[i]]}

\* waveform_data: wfname = str(el) + '_' + cid is the pair <<el, cid>>; an
\* assignment under a name that is there replaces the data
HDAWG8_waveform_data(E, n) ==
    [wfname \in {w \in {E[k].el : k \in DOMAIN E} \X Range(HDAWG8_cids(n)) :
                    \E k \in DOMAIN E :
                        E[k].el = w[1] /\ HDAWG8_cws_with(E[k], w[2]) # {}} |->
        LET e == E[Max({k \in DOMAIN E :
                          E[k].el = wfname[1]
                          /\ HDAWG8_cws_with(E[k], wfname[2]) # {}})]
        IN e.wfs[CwOrder[Max(HDAWG8_cws_with(e, wfname[2]))]][wfname[2]]]

\* ch_has_waveforms[ch1id] or ch_has_waveforms[ch2id]
HDAWG8_configured(E, n) ==
    \E w \in DOMAIN HDAWG8_waveform_data(E, n) :
        w[2] \in {HDAWG8_cids(n)[1], HDAWG8_cids(n)[3]}

\* waveform_table: one setWaveDIO entry for each codeword of each element
HDAWG8_waveform_table(E, n) ==
    LET c == HDAWG8_cids(n)
        name(e, cw, id, mid) ==
            IF id \in DOMAIN e.wfs[cw]
                THEN wf_name(e.el, id, mid, DevName, mid \in DOMAIN e.wfs[cw])
                ELSE NoName
        entry(e, cw) ==
            IF cw \in DOMAIN e.wfs /\ cw # "no_codeword"
               /\ (c[1] \in DOMAIN e.wfs[cw] \/ c[3] \in DOMAIN e.wfs[cw])
                THEN <<[cw |-> cw, wf1 |-> name(e, cw, c[1], c[2]),
                        wf2 |-> name(e, cw, c[3], c[4])]>>
                ELSE << >>
    IN ConcatAll([k \in DOMAIN E |->
           ConcatAll([i \in DOMAIN CwOrder |-> entry(E[k], CwOrder[i])])])

\* main_loop: _hdawg_element_seqc for each entry of awg_sequence
HDAWG8_main_loop(E, n) ==
    LET c == HDAWG8_cids(n)
        wd == DOMAIN HDAWG8_waveform_data(E, n)
        name(el, id, mid) ==
            IF <<el, id>> \in wd
                THEN wf_name(el, id, mid, DevName, <<el, mid>> \in wd)
                ELSE NoName
        seqc(e) ==
            IF DOMAIN e.wfs \ {"no_codeword"} # {}
                THEN <<[play |-> "playWaveDIO", wf1 |-> NoName, wf2 |-> NoName]>>
            ELSE IF name(e.el, c[1], c[2]) # NoName
                    \/ name(e.el, c[3], c[4]) # NoName
                THEN <<[play |-> "playWave", wf1 |-> name(e.el, c[1], c[2]),
                        wf2 |-> name(e.el, c[3], c[4])]>>
            ELSE << >>
    IN ConcatAll([k \in DOMAIN E |-> seqc(E[k])])

\* obj._write_csv_waveform(simplify_name(wfname), np.array(data)) for every
\* entry of waveform_data: the file name and the samples written
HDAWG8_csv_writes(E, n) ==
    LET wd == HDAWG8_waveform_data(E, n)
    IN {[name |-> simplify_name(ElChars(w[1]) \o <<"_">> \o CidChars(w[2])),
         data |-> wd[w]] : w \in DOMAIN wd}

\* A faulty variant of HDAWG8_element_seqc: the trigger is waited for
\* before the prefetch instead of right before the play.
HDAWG8_element_seqc_trigger_first(name1, name2) ==
    <<[op |-> "waitDigTrigger", wf1 |-> NoName, wf2 |-> NoName]>>
    \o (IF name1 = NoName /\ name2 = NoName
           THEN << >>
           ELSE <<[op |-> "prefetch", wf1 |-> name1, wf2 |-> name2]>>)
    \o <<[op |-> IF name1 = NoName /\ name2 = NoName THEN "playWaveDIO"
                                                    ELSE "playWave",
          wf1 |-> name1, wf2 |-> name2]>>

\* _hdawg_element_seqc(name1, name2): prefetch_str + trigger_str + play_str
\* as a list of instructions
HDAWG8_element_seqc(name1, name2) ==
    (IF name1 = NoName /\ name2 = NoName
        THEN << >>
        ELSE <<[op |-> "prefetch", wf1 |-> name1, wf2 |-> name2]>>)
    \o <<[op |-> "waitDigTrigger", wf1 |-> NoName, wf2 |-> NoName]>>
    \o <<[op |-> IF name1 = NoName /\ name2 = NoName THEN "playWaveDIO"
                                                    ELSE "playWave",
          wf1 |-> name1, wf2 |-> name2]>>

\* The instructions between 'while(1) {' and '}' of sub-sequencer n
HDAWG8_seqc(E, n) ==
    LET main_loop == HDAWG8_main_loop(E, n)
    IN ConcatAll([i \in DOMAIN main_loop |->
           HDAWG8_element_seqc(main_loop[i].wf1, main_loop[i].wf2)])

HDAWG8_program_awg_alone(E) ==
    LET configured == {n \in 0..3 : HDAWG8_configured(E, n)}
    IN [err |-> "ok",
        upload |-> configured # {},
        configured |-> configured,
        seqc |-> [n \in configured |-> HDAWG8_seqc(E, n)],
        waveform_data |-> [n \in configured |-> HDAWG8_waveform_data(E, n)],
        waveform_table |-> [n \in configured |-> HDAWG8_waveform_table(E, n)],
        main_loop |-> [n \in configured |-> HDAWG8_main_loop(E, n)],
        csv |-> [n \in configured |-> HDAWG8_csv_writes(E, n)]]

\* ------------------------------------------------------------------------
\* Inputs
\* ------------------------------------------------------------------------
MapChoices ==
    { EmptyMap,
      ("ch1" :> <<"x", "">>),
      ("ch1" :> <<"H1", "ch2">>),
      ("ch1" :> <<"y", "">>) @@ ("ch2" :> <<"y", "">>) }

\* The master_awg argument of the constructor
MasterChoices == {None} \cup Instruments

InitPulsar ==
    /\ awgs = {}
    /\ channels = {}
    /\ chan_awg = [n \in {} |-> ""]
    /\ chan_id = [n \in {} |-> ""]
    /\ awg_params = {}
    /\ active = [d \in Instruments |-> TRUE]
    /\ awgs_with_waveforms = {}
    /\ awgs_prequeried_state = FALSE
    /\ clocks = {}
    /\ pc = "idle"
    /\ sequence = None
    /\ todo = << >>
    /\ uploaded = {}
    /\ used_awgs = << >>
    /\ good = FALSE
    /\ elapsed = 0
    /\ started = << >>
    /\ reported = {}
    /\ stopped = {}
    /\ playing = {}
    /\ polled = {}
    /\ visited = {}
    /\ last = [op |-> "init", awg |-> None, err |-> "ok"]
    /\ query = NoQuery

Init ==
    /\ InitPulsar
    /\ master_awg \in MasterChoices
    /\ given = NoGiven
    /\ result = NoResult

\* The awgs argument of program_awgs: 'all' or a list of names
AwgsArgs == {<<"all">>, <<"T1">>, <<"H1", "T1">>, <<"U1">>}

Register == \E d \in Instruments, m \in MapChoices : define_awg_channels(d, m)

RegisterDefault == \E d \in Instruments : define_awg_channels(d, EmptyMap)

SetActive == \E d \in Instruments, v \in BOOLEAN : set_active(d, v)

ProgramBegin ==
    \E s \in SequenceNames, a \in AwgsArgs : program_awgs_begin(s, a)

Resolve == \E ok \in BOOLEAN : resolve_segments(ok)

StartPoll ==
    \E running \in BOOLEAN, advance \in 0..MaxAdvance :
        start_poll(running, advance)

Clock == \E d \in Instruments : clock(d)

IsAwgRunning == \E d \in Instruments : is_awg_running(d)

Next ==
    \/ RegisterDefault
    \/ SetActive
    \/ ProgramBegin
    \/ AWGs_prequeried_True
    \/ Resolve
    \/ program_awgs_step
    \/ program_awgs_end
    \/ start_begin
    \/ StartPoll
    \/ start_next
    \/ start_master
    \/ stop
    \/ Clock
    \/ IsAwgRunning

Spec == Init /\ [][Next]_vars

NextReg == Register \/ SetActive

\* The channels whose amplitude is read: the first analog and the first
\* marker channel of an AWG
AmpIds == {"ch1", "ch1m1", "ch1m"}

ClockInCall == \E d \in Instruments : clock_in_call(d)

GetAmp == \E c \in channels : chan_id[c] \in AmpIds /\ get_amp(c)

\* Registration, programming, and the reads of clocks and amplitudes
NextQuery ==
    \/ RegisterDefault
    \/ ProgramBegin
    \/ AWGs_prequeried_True
    \/ Resolve
    \/ program_awgs_step
    \/ program_awgs_end
    \/ Clock
    \/ ClockInCall
    \/ GetAmp

SpecQuery == Init /\ [][NextQuery]_vars

\* Registration and programming, with the calls of program_awgs followed
InitTwice ==
    /\ InitPulsar
    /\ master_awg = None
    /\ given = [fn |-> "program_awgs", sequence |-> None, awgs |-> << >>]
    /\ result = NoResult

RegisterAWG == \E d \in {"T1", "H1"} : define_awg_channels(d, EmptyMap)

ProgramFollowed ==
    \E s \in {"plain", "quiet", "codeword"}, a \in {<<"all">>, <<"H1", "T1">>} :
        program_awgs_begin(s, a)

NextTwice ==
    \/ RegisterAWG
    \/ ProgramFollowed
    \/ AWGs_prequeried_True
    \/ Resolve
    \/ program_awgs_step
    \/ program_awgs_end

SpecTwice == InitTwice /\ [][NextTwice]_vars

SpecReg == Init /\ [][NextReg]_vars

\* ========================================================================
\* Claims
\* ========================================================================
Slaves == UsedAwgs \ {master_awg}

MasterStarted ==
    master_awg # None /\ \E i \in DOMAIN started : started[i] = master_awg

\* C1: in a start() call with a master, the master's start() is invoked
\* after every slave (every other active AWG with waveforms) has reported
\* running, and as the last start() of the call; a call that ends with the
\* timeout exception has not invoked the master's start(), and a call that
\* returns has.
C1_StartOrdering ==
    /\ MasterStarted =>
          /\ started[Len(started)] = master_awg
          /\ \A i \in 1..(Len(started) - 1) : started[i] # master_awg
          /\ \A d \in Slaves : d \in reported
    /\ (last.op = "start" /\ last.err = ErrStart) =>
          /\ ~MasterStarted
          /\ last.awg \in Slaves
    /\ (last.op = "start" /\ last.err = "ok" /\ master_awg # None) =>
          MasterStarted

\* A start() call has started a registered master after its slave reported
\* running.
C1_Witness ==
    /\ last.op = "start"
    /\ last.err = "ok"
    /\ master_awg \in awgs
    /\ MasterStarted
    /\ Slaves # {}
    /\ Slaves \subseteq reported

C3_StartOnlyUsed ==
    \A i \in DOMAIN started :
        started[i] \in awgs =>
            (active[started[i]] /\ started[i] \in awgs_with_waveforms)

\* C4 (as claimed): a program_awgs call uploads to no registered AWG whose
\* active flag is false.
C4_NoUploadToInactive ==
    last.op = "program_awgs" =>
        \A d \in uploaded : d \in awgs => active[d]

\* C5 (as claimed): a program_awgs call in which the programming of some
\* AWG failed has uploaded to no AWG.
C5_AllOrNothing ==
    (last.op = "program_awgs" /\ last.err \notin {"ok", "running"}
        /\ last.awg # None)
    => uploaded = {}

\* C6 (as claimed): an AWG is in the set of AWGs with waveforms only if the
\* latest program_awgs call uploaded its program, and an AWG whose
\* programming failed is not in the set.
C6_WithWaveformsOnlyIfProgrammed ==
    /\ pc = "idle" => awgs_with_waveforms \subseteq uploaded
    /\ (last.op = "program_awgs" /\ last.err \notin {"ok", "running"}
          /\ last.awg # None)
       => last.awg \notin awgs_with_waveforms

InProgramCall == pc \in {"prequery", "resolve", "program"}

\* C7: an AWG on which the sequence of the latest program_awgs call has no
\* element is neither uploaded to nor in the set of AWGs with waveforms,
\* during the call and after it, and no step of a program_awgs call changes
\* an active flag.
C7_NoDataNoProgram ==
    /\ [](sequence # None =>
            \A d \in Instruments :
                SegmentsOn(sequence, d) = {} =>
                    (d \notin uploaded /\ d \notin awgs_with_waveforms))
    /\ [][(InProgramCall \/ InProgramCall') => active' = active]_vars

\* A program_awgs call that returned has uploaded to one AWG and handled
\* another, active one, on which the sequence has no element.
C7_Witness ==
    /\ last.op = "program_awgs"
    /\ last.err = "ok"
    /\ uploaded # {}
    /\ \E d \in visited : active[d] /\ SegmentsOn(sequence, d) = {}

\* C8 (as claimed): for an instrument that neither mixin supports, the
\* super() chain visits AWG5014Pulsar, then HDAWG8Pulsar, and registration,
\* programming, the running-state query and the clock query all end with
\* the unsupported-instrument TypeError.
C8_UnsupportedEverywhere ==
    \A d \in Instruments :
        Backend(InstrClass(d)) = None =>
            /\ Visited(InstrClass(d)) = <<"AWG5014Pulsar", "HDAWG8Pulsar">>
            /\ (last.awg = d /\ last.op \in {"define_awg_channels",
                    "program_awgs", "_is_awg_running", "clock"})
               => last.err = ErrUnsupported

\* C9 (as claimed): define_awg_channels for a registered AWG ends with the
\* AWG-already-added error and changes neither the AWGs nor the channels.
C9_DuplicateDevice ==
    [][\A d \in Instruments, m \in MapChoices :
          (define_awg_channels(d, m) /\ d \in awgs) =>
              /\ last'.err = ErrAWGAdded
              /\ awgs' = awgs
              /\ channels' = channels]_vars

\* C9 (amended): define_awg_channels for a registered AWG fails and changes
\* neither the AWGs nor the channels; the error is the channel-already-
\* defined error when a name of the channel map is a channel, and the
\* AWG-already-added error otherwise.
C9_DuplicateDeviceAmended ==
    [][\A d \in Instruments, m \in MapChoices :
          (define_awg_channels(d, m) /\ d \in awgs) =>
              /\ last'.err = IF \E n \in Range(m) : n \in channels
                                THEN ErrChannelDefined
                                ELSE ErrAWGAdded
              /\ awgs' = awgs
              /\ channels' = channels]_vars

\* A registration of a registered AWG has ended with the AWG-already-added
\* error.
C9_Witness ==
    /\ last.op = "define_awg_channels"
    /\ last.awg \in awgs
    /\ last.err = ErrAWGAdded

\* The names define_awg_channels(d, m) would give to the channels of d
WouldCreate(d, m) ==
    {ChannelName(d, id, m) : id \in Range(IdsOf(Backend(InstrClass(d))))}

\* m gives one name to two channel ids of d
NamedTwice(d, m) ==
    \E i, j \in Range(IdsOf(Backend(InstrClass(d)))) :
        i # j /\ ChannelName(d, i, m) = ChannelName(d, j, m)

\* C10 (as claimed): define_awg_channels for a new AWG of a supported class
\* ends with the channel-already-defined error whenever a name it would
\* create is a channel already, or the map gives one name to two of its
\* ids.
C10_DuplicateChannel ==
    [][\A d \in Instruments, m \in MapChoices :
          (/\ define_awg_channels(d, m)
           /\ d \notin awgs
           /\ Backend(InstrClass(d)) # None
           /\ (WouldCreate(d, m) \cap channels # {} \/ NamedTwice(d, m)))
          => last'.err = ErrChannelDefined]_vars

\* ------------------------------------------------------------------------
\* _program_awg taken alone, on the elements of one AWG
\* ------------------------------------------------------------------------
\* The most segments of a sequence
MaxSegments == 3

\* Sample arrays: a pulse of 16 samples, one of 32, and one of 17
Pulse(n) == [i \in 1..n |-> IF i \in {2, 3} THEN 1 ELSE 0]

\* The elements: A and B hold the same samples under two names, C holds
\* arrays of two lengths in two channel groups, M5 and M8 have a marker
\* (under the id of an AWG5014 and of an HDAWG8), W has two codewords and L
\* is 17 samples long.
PkA == Element("A", "no_codeword" :> ("ch1" :> Pulse(16)))
PkB == Element("B", "no_codeword" :> ("ch1" :> Pulse(16)))
PkC == Element("C", "no_codeword" :>
                        (("ch1" :> Pulse(32)) @@ ("ch2" :> Pulse(16))))
PkM5 == Element("M", "no_codeword" :>
                        (("ch1" :> Pulse(16)) @@ ("ch1m1" :> Pulse(16))))
PkM8 == Element("M", "no_codeword" :>
                        (("ch1" :> Pulse(16)) @@ ("ch1m" :> Pulse(16))))
PkW == Element("W", ("cw0" :> ("ch1" :> Pulse(16)))
                      @@ ("cw1" :> ("ch1" :> np_zeros(16))))
PkL == Element("L", "no_codeword" :> ("ch1" :> Pulse(17)))

PackElements(awg) ==
    {PkA, PkB, PkC, PkW, PkL}
        \cup (IF Backend(InstrClass(awg)) = "AWG5014Pulsar" THEN {PkM5}
                                                             ELSE {PkM8})

\* The lists of at most n elements of S
SeqsUpTo(S, n) == UNION {[1..k -> S] : k \in 1..n}

PackInputs ==
    {[fn |-> "_program_awg", awg |-> awg, els |-> E] :
        awg \in {"T1", "H1"}, E \in SeqsUpTo(PackElements("T1"), MaxSegments)
                                   \cup SeqsUpTo(PackElements("H1"), MaxSegments)}

\* ZI_HDAWG8._gen_write_csv: the multiple of samples write_func pads to
WriteMultiple == 8

\* The waveforms set through a wave_chN_cwNNN parameter of the driver
WriteInputs ==
    {[fn |-> "write_func", awg |-> "H1", waveform |-> Pulse(n)] :
        n \in {8, 16, 17}}

\* write_func(waveform) of _gen_write_csv, with the _write_csv_waveform it
\* ends in: the samples that reach the file
write_func(waveform) ==
    LET padded == IF Len(waveform) % WriteMultiple # 0
                    THEN waveform \o np_zeros(WriteMultiple
                                     - (Len(waveform) % WriteMultiple))
                    ELSE waveform
    IN [err |-> "ok", upload |-> FALSE, written |-> padded]

\* The elements of a sequence for _program_awg_old: the k-th is called
\* ElNames[k]; its waveform, repetitions, goto target and trigger wait are
\* those of one of the kinds below
ElNames == <<"e1", "e2", "e3", "e4", "e5">>

OldKinds ==
    {[wfname |-> "A", repetitions |-> 1, goto_target |-> None,
      trigger_wait |-> TRUE],
     [wfname |-> "C", repetitions |-> 2, goto_target |-> None,
      trigger_wait |-> FALSE],
     [wfname |-> "A", repetitions |-> 1, goto_target |-> "e1",
      trigger_wait |-> TRUE],
     [wfname |-> "A", repetitions |-> 1, goto_target |-> "e2",
      trigger_wait |-> TRUE],
     [wfname |-> "A", repetitions |-> 1, goto_target |-> "e3",
      trigger_wait |-> TRUE],
     [wfname |-> "A", repetitions |-> 1, goto_target |-> "zz",
      trigger_wait |-> TRUE],
     [wfname |-> "A", repetitions |-> MaxRepetitions + 1, goto_target |-> None,
      trigger_wait |-> TRUE]}

OldElements(kinds) ==
    [k \in DOMAIN kinds |->
        [name |-> ElNames[k], wfname |-> kinds[k].wfname,
         repetitions |-> kinds[k].repetitions,
         goto_target |-> kinds[k].goto_target,
         trigger_wait |-> kinds[k].trigger_wait]]

\* el_wfs: the arrays of the waveforms the elements name
OldElWfs(elements) ==
    [el \in {elements[k].wfname : k \in DOMAIN elements} |->
        IF el = "A" THEN PkA.wfs["no_codeword"] ELSE PkC.wfs["no_codeword"]]

\* A sequence of more than MaxSegments elements is given by its first
\* elements and the number element_count() returns
OldInputs ==
    UNION {{[fn |-> "_program_awg_old", awg |-> "T1",
             els |-> OldElements(kinds), element_count |-> n, loop |-> loop] :
               n \in {Len(kinds), MaxElementCount, MaxElementCount + 1},
               loop \in BOOLEAN} :
           kinds \in SeqsUpTo(OldKinds, MaxSegments)}

\* The longest name simplify_name is called on
MaxNameLen == 2

\* Pairs of names over a few characters: a letter, a digit, '_' and '-'
NameStrings == UNION {[1..k -> {"a", "1", "_", "-"}] : k \in 1..MaxNameLen}

NameInputs ==
    {[fn |-> "simplify_name", awg |-> "H1", names |-> <<s1, s2>>] :
        s1 \in NameStrings, s2 \in NameStrings}

\* The values the offsets and marker levels have on an AWG5014 before the
\* call, and those the loaded file leaves: all 0, or 1 for the offsets and
\* 2 for the marker levels
LevelChoices ==
    {[par \in AWG5014_offset_pars \cup AWG5014_marker_pars |-> 0],
     [par \in AWG5014_offset_pars \cup AWG5014_marker_pars |->
         IF par \in AWG5014_offset_pars THEN 1 ELSE 2]}

WithLevels(g) ==
    IF Backend(InstrClass(g.awg)) = "AWG5014Pulsar"
        THEN {[fn |-> g.fn, awg |-> g.awg, els |-> g.els, levels |-> l,
               file_levels |-> f] : l \in LevelChoices, f \in LevelChoices}
        ELSE {g}

InitPack ==
    /\ InitPulsar
    /\ master_awg = None
    /\ given \in UNION {WithLevels(g) :
                            g \in {h \in PackInputs :
                                      Range(h.els) \subseteq PackElements(h.awg)}}
                 \cup WriteInputs
                 \cup OldInputs
                 \cup NameInputs
    /\ result = NoResult

AWG5014_program_awg_call ==
    /\ result = NoResult
    /\ given.fn = "_program_awg"
    /\ Backend(InstrClass(given.awg)) = "AWG5014Pulsar"
    /\ result' = LET r == AWG5014_program_awg_alone(given.els)
                 IN r @@ [levels |-> AWG5014_levels_after(
                                         given.levels, given.file_levels,
                                         r.upload)]
    /\ UNCHANGED <<registry, active, master_awg, prog_vars, pc, visited,
                   start_vars, stopped, playing,
                   polled, last, query, given>>

HDAWG8_program_awg_call ==
    /\ result = NoResult
    /\ given.fn = "_program_awg"
    /\ Backend(InstrClass(given.awg)) = "HDAWG8Pulsar"
    /\ result' = HDAWG8_program_awg_alone(given.els)
    /\ UNCHANGED <<registry, active, master_awg, prog_vars, pc, visited,
                   start_vars, stopped, playing,
                   polled, last, query, given>>

write_func_call ==
    /\ result = NoResult
    /\ given.fn = "write_func"
    /\ result' = write_func(given.waveform)
    /\ UNCHANGED <<registry, active, master_awg, prog_vars, pc, visited,
                   start_vars, stopped, playing,
                   polled, last, query, given>>

AWG5014_program_awg_old_call ==
    /\ result = NoResult
    /\ given.fn = "_program_awg_old"
    /\ result' = AWG5014_program_awg_old(given.els, OldElWfs(given.els),
                                         given.element_count, given.loop)
    /\ UNCHANGED <<registry, active, master_awg, prog_vars, pc, visited,
                   start_vars, stopped, playing,
                   polled, last, query, given>>

simplify_name_call ==
    /\ result = NoResult
    /\ given.fn = "simplify_name"
    /\ result' = [err |-> "ok", upload |-> FALSE,
                  names |-> <<simplify_name(given.names[1]),
                              simplify_name(given.names[2])>>]
    /\ UNCHANGED <<registry, active, master_awg, prog_vars, pc, visited,
                   start_vars, stopped, playing,
                   polled, last, query, given>>

NextPack ==
    \/ simplify_name_call
    \/ AWG5014_program_awg_call
    \/ AWG5014_program_awg_old_call
    \/ HDAWG8_program_awg_call
    \/ write_func_call

SpecPack == InitPack /\ [][NextPack]_vars

\* C11 (as claimed): a clock or an amplitude read in the prequeried state
\* takes the value from what the prequery cached and asks no hardware, and
\* the same read outside the prequeried state asks the hardware.
C11_PrequeriedReads ==
    (query.par[1] \in {"clock", "amp"} /\ query.src # "error") =>
        IF query.state THEN query.src \in {"clocks", "latest"}
                       ELSE query.src = "hardware"

\* The padded content of element e in channel group grp of an AWG5014, and
\* the samples of element e for channel id cid of an HDAWG8
AWG5014_content(e, grp) ==
    LET g == AWG5014_grp_wfs(e, grp)
        ids == AWG5014_group_ids(grp)
    IN pack_waveform(g[ids[1]], g[ids[2]], g[ids[3]])

HDAWG8_content(e, cid) == e.wfs[CwOrder[Max(HDAWG8_cws_with(e, cid))]][cid]

\* C12 (as claimed): two elements of one device and channel group get the
\* same waveform key if and only if their padded content is identical, so a
\* group has as many waveform blobs as it has distinct contents.
C12_Deduplication ==
    (given.fn = "_program_awg" /\ result.err = "ok") =>
        LET E == given.els
        IN IF Backend(InstrClass(given.awg)) = "AWG5014Pulsar"
            THEN \A grp \in result.grps :
                    /\ \A i, j \in DOMAIN E :
                          (result.wfname_l[grp][i] = result.wfname_l[grp][j])
                              <=> (AWG5014_content(E[i], grp)
                                      = AWG5014_content(E[j], grp))
                    /\ Cardinality({w \in DOMAIN result.packed_waveforms :
                                        w[2] = grp})
                         = Cardinality({AWG5014_content(E[i], grp) :
                                            i \in DOMAIN E})
            ELSE \A n \in result.configured : \A cid \in Range(HDAWG8_cids(n)) :
                    LET with == {i \in DOMAIN E :
                                    HDAWG8_cws_with(E[i], cid) # {}}
                    IN /\ \A i, j \in with :
                             (E[i].el = E[j].el)
                                 <=> (HDAWG8_content(E[i], cid)
                                         = HDAWG8_content(E[j], cid))
                       /\ Cardinality({w \in DOMAIN result.waveform_data[n] :
                                           w[2] = cid})
                            = Cardinality({HDAWG8_content(E[i], cid) :
                                               i \in with})

\* The value of the '<awg>_granularity' parameter
AWG5014_granularity == 4
HDAWG8_granularity == 16

granularity(awg) ==
    IF Backend(InstrClass(awg)) = "AWG5014Pulsar" THEN AWG5014_granularity
                                                  ELSE HDAWG8_granularity

\* The lengths of the sample arrays of element e
ElementLengths(e) ==
    UNION {{Len(e.wfs[cw][cid]) : cid \in DOMAIN e.wfs[cw]} :
              cw \in DOMAIN e.wfs}

\* The lengths of the waveforms a call of _program_awg emitted
EmittedLengths ==
    IF result.err # "ok" THEN {}
    ELSE IF Backend(InstrClass(given.awg)) = "AWG5014Pulsar"
        THEN UNION {{Len(result.packed_waveforms[w].wf),
                     Len(result.packed_waveforms[w].m1),
                     Len(result.packed_waveforms[w].m2)} :
                        w \in DOMAIN result.packed_waveforms}
    ELSE {Len(f.data) : f \in UNION {result.csv[n] : n \in result.configured}}

\* C13 (as claimed): every emitted waveform is a multiple of the device's
\* granularity long, and an element whose length is not such a multiple makes
\* the call fail; it is never padded silently and written.
C13_Granularity ==
    /\ (given.fn = "_program_awg" /\ result # NoResult) =>
          /\ \A n \in EmittedLengths : n % granularity(given.awg) = 0
          /\ (\E k \in DOMAIN given.els : \E n \in ElementLengths(given.els[k]) :
                    n % granularity(given.awg) # 0)
                => (result.err # "ok" /\ ~result.upload)
    /\ (given.fn = "write_func" /\ result # NoResult
         /\ Len(given.waveform) % WriteMultiple # 0)
            => result.err # "ok"

\* C14 (as claimed): on a device that plays codewords, an element with more
\* than one codeword makes the call fail, and nothing is uploaded.
C14_CodewordConflict ==
    (/\ given.fn = "_program_awg"
     /\ result # NoResult
     /\ Backend(InstrClass(given.awg)) = "HDAWG8Pulsar"
     /\ \E k \in DOMAIN given.els :
            Cardinality(DOMAIN given.els[k].wfs \ {"no_codeword"}) > 1)
        => (result.err # "ok" /\ ~result.upload)

\* A table of the AWG5014 was produced by the call
TableProduced ==
    /\ given.fn \in {"_program_awg", "_program_awg_old"}
    /\ Backend(InstrClass(given.awg)) = "AWG5014Pulsar"
    /\ result # NoResult
    /\ result.err = "ok"
    /\ result.upload

\* Looping was asked for: _program_awg has no such argument and always
\* closes the loop
LoopRequested == given.fn = "_program_awg" \/ given.loop

\* The goto target the k-th element was given (None when it has none)
GivenTarget(k) ==
    IF given.fn = "_program_awg_old" THEN given.els[k].goto_target ELSE None

\* C15 (as claimed): every goto entry of a produced table is none, or an
\* index emitted already (an entry that names itself is let through here), or
\* the loop-closing goto of the last entry; and a goto target that is not the
\* name of an entry emitted already makes the call fail instead of producing
\* a table.
C15_GotoValidity ==
    /\ TableProduced =>
          \A k \in DOMAIN result.goto_l :
              \/ result.goto_l[k] = 0
              \/ result.goto_l[k] <= k
              \/ (k = Len(result.goto_l) /\ LoopRequested
                     /\ result.goto_l[k] = 1)
    /\ (/\ given.fn = "_program_awg_old"
        /\ result # NoResult
        /\ given.element_count <= MaxElementCount
        /\ \E k \in DOMAIN given.els :
               /\ given.els[k].goto_target # None
               /\ \A j \in 1..k :
                      given.els[j].name # given.els[k].goto_target)
          => (result.err # "ok" /\ ~result.upload)

\* C16 (as claimed): a sequence of more elements than the device takes
\* makes the call fail with an error; the call neither uploads a shortened
\* table nor returns normally.
C16_ProgramTooLarge ==
    (/\ given.fn = "_program_awg_old"
     /\ result # NoResult
     /\ given.element_count > MaxElementCount)
        => (result.err # "ok" /\ ~result.upload)

\* The index the goto target of the k-th element stands for, 0 for none
TargetIndex(k) ==
    IF GivenTarget(k) = None THEN 0
                             ELSE element_index(given.els, GivenTarget(k))

\* C19 (as claimed): in a produced table the last entry's goto is the first
\* index when looping is asked for and the entry has no target, and its own
\* target when it has one; every other entry keeps its own target, and
\* without looping no goto is added.
C19_LoopClosingGoto ==
    TableProduced =>
        LET n == Len(result.goto_l)
        IN /\ (LoopRequested /\ GivenTarget(n) = None) => result.goto_l[n] = 1
           /\ GivenTarget(n) # None => result.goto_l[n] = TargetIndex(n)
           /\ \A k \in 1..(n - 1) : result.goto_l[k] = TargetIndex(k)
           /\ ~LoopRequested =>
                 \A k \in 1..n : result.goto_l[k] = TargetIndex(k)

\* The part of a packed waveform that holds channel id cid of an AWG5014:
\* the analog samples, marker 1 or marker 2
PackedPart(blob, cid) ==
    LET i == CHOOSE k \in DOMAIN AWG5014Ids : AWG5014Ids[k] = cid
    IN IF i % 3 = 1 THEN blob.wf ELSE IF i % 3 = 2 THEN blob.m1 ELSE blob.m2

\* wf is orig followed by zeros only
ZeroPadded(wf, orig) ==
    /\ Len(wf) >= Len(orig)
    /\ SubSeq(wf, 1, Len(orig)) = orig
    /\ \A i \in (Len(orig) + 1)..Len(wf) : wf[i] = 0

\* C20 (as claimed): the arrays of an element in one channel group are
\* padded with zeros at the end to the longest array of that group, not to
\* the longest array of the element, so that the three parts of the packed
\* waveform are equally long and each starts with the samples it was given.
C20_PadToGroupMaximum ==
    (given.fn = "_program_awg" /\ TableProduced) =>
        \A k \in DOMAIN given.els : \A grp \in result.grps :
            LET e == given.els[LastNamed(given.els, given.els[k].el)]
                cid_wfs == e.wfs["no_codeword"]
                cids == {c \in DOMAIN cid_wfs : Group(c) = grp}
                blob == result.packed_waveforms[<<e.el, grp>>]
            IN cids # {} =>
                 /\ \A part \in {blob.wf, blob.m1, blob.m2} :
                        Len(part) = Max({Len(cid_wfs[c]) : c \in cids})
                 /\ \A c \in cids :
                        ZeroPadded(PackedPart(blob, c), cid_wfs[c])

\* A call of program_awgs has ended, and the call before it was a call of
\* program_awgs with the same sequence and the same AWGs in the same order,
\* for which the timing resolver did the same
ProgrammedTwice ==
    /\ pc = "idle"
    /\ last.op = "program_awgs"
    /\ result # NoResult
    /\ result.op = "program_awgs"
    /\ result.given = given
    /\ (result.err = ErrResolve) <=> (last.err = ErrResolve)

Packs(s, d) ==
    LET b == Backend(InstrClass(d))
    IN IF b = "AWG5014Pulsar"
          THEN AWG5014_has_waveforms(s, d) /\ ~AWG5014_codeword_error(s, d)
          ELSE b = "HDAWG8Pulsar"

\* C18 (as claimed): within one call of program_awgs the prequery is
\* finished before a segment is resolved, every segment is resolved before
\* an AWG is packed, and no AWG is packed or generated once some AWG has
\* been sent its program.
C18_PhaseOrder ==
    [][/\ (pc' = "resolve" => pc = "prequery")
       /\ ((pc' = "program" /\ pc # "program") => pc = "resolve")
       /\ ((pc = "program" /\ visited' # visited
              /\ Packs(sequence, Head(todo))) => uploaded = {})]_vars

\* The marker ids of an AWG5014 as they are registered: ch<N>m1, ch<N>m2
AWG5014_marker_ids ==
    {AWG5014Ids[i] : i \in {k \in DOMAIN AWG5014Ids : k % 3 # 1}}

\* C21 (as claimed): for every element of an AWG5014 and every programmed
\* channel group, the marker parts of the packed waveform are the arrays the
\* element has under the registered marker ids of the group, zero-padded; a
\* marker array with a sample that is not zero is never packed as zeros.
C21_MarkersPacked ==
    (given.fn = "_program_awg" /\ TableProduced) =>
        \A k \in DOMAIN given.els : \A grp \in result.grps :
            LET e == given.els[LastNamed(given.els, given.els[k].el)]
                cid_wfs == e.wfs["no_codeword"]
                blob == result.packed_waveforms[<<e.el, grp>>]
            IN \A c \in DOMAIN cid_wfs \cap AWG5014_marker_ids :
                   Group(c) = grp =>
                       /\ ZeroPadded(PackedPart(blob, c), cid_wfs[c])
                       /\ np_any(cid_wfs[c]) => np_any(PackedPart(blob, c))

\* ZI_HDAWG8._write_csv_waveform: the file of a written waveform is called
\* self._devname + '_' + wf_name (+ '.csv')
csv_filename(f) == DevName \o <<"_">> \o f.name

\* name begins with the characters of ref
StartsWith(name, ref) ==
    Len(name) >= Len(ref) /\ SubSeq(name, 1, Len(ref)) = ref

\* C22 (as claimed): for an element with codewords on an HDAWG8, the table
\* entry of every codeword names, for each analog channel the codeword has
\* samples on, a waveform that was written and that holds the samples of
\* that codeword; so two codewords with different samples never share one.
C22_CodewordTable ==
    (/\ given.fn = "_program_awg"
     /\ Backend(InstrClass(given.awg)) = "HDAWG8Pulsar"
     /\ result # NoResult) =>
        \A n \in result.configured : \A k \in DOMAIN given.els :
            \A cw \in DOMAIN given.els[k].wfs \ {"no_codeword"} :
                \A j \in {1, 3} :
                    LET e == given.els[k]
                        cid == HDAWG8_cids(n)[j]
                        ref == wf_name(e.el, cid, cid, DevName, FALSE)
                        table == result.waveform_table[n]
                    IN cid \in DOMAIN e.wfs[cw] =>
                         /\ \E i \in DOMAIN table :
                                /\ table[i].cw = cw
                                /\ StartsWith(IF j = 1 THEN table[i].wf1
                                                       ELSE table[i].wf2, ref)
                         /\ \E f \in result.csv[n] :
                                /\ csv_filename(f) = SubSeq(ref, 2, Len(ref) - 1)
                                /\ f.data = e.wfs[cw][cid]

\* The elements of the sequence that sub-sequencer n plays: those with
\* codewords and those with samples on one of its two analog channels
PlayedOn(n) ==
    LET c == HDAWG8_cids(n)
    IN {k \in DOMAIN given.els :
           \/ DOMAIN given.els[k].wfs \ {"no_codeword"} # {}
           \/ DOMAIN given.els[k].wfs["no_codeword"] \cap {c[1], c[3]} # {}}

\* The positions of the play instructions in a list of instructions
Plays(ins) == {i \in DOMAIN ins : ins[i].op \in {"playWave", "playWaveDIO"}}

\* C23: every entry of the table _program_awg makes for an AWG5014 waits
\* for the trigger; in the program of every HDAWG8 sub-sequencer each play
\* comes right after a waitDigTrigger, there are as many waitDigTrigger as
\* plays, and the plays are those of the elements the sub-sequencer plays,
\* one each and in the order of the sequence (an element with codewords by
\* playWaveDIO, any other by playWave).
C23_TriggerBeforePlay ==
    (given.fn = "_program_awg" /\ result # NoResult /\ result.err = "ok"
     /\ result.upload) =>
        IF Backend(InstrClass(given.awg)) = "AWG5014Pulsar"
            THEN /\ Len(result.wait_l) = Len(given.els)
                 /\ \A k \in DOMAIN result.wait_l : result.wait_l[k] = 1
            ELSE \A n \in result.configured :
                    LET ins == result.seqc[n]
                        plays == Plays(ins)
                        nth(j) == CHOOSE i \in plays :
                                     Cardinality({p \in plays : p < i}) = j - 1
                        kth(j) == CHOOSE k \in PlayedOn(n) :
                                     Cardinality({q \in PlayedOn(n) : q < k})
                                         = j - 1
                    IN /\ \A i \in plays :
                             i > 1 /\ ins[i - 1].op = "waitDigTrigger"
                       /\ Cardinality({i \in DOMAIN ins :
                                          ins[i].op = "waitDigTrigger"})
                            = Cardinality(plays)
                       /\ Cardinality(plays) = Cardinality(PlayedOn(n))
                       /\ \A j \in 1..Cardinality(plays) :
                             (ins[nth(j)].op = "playWaveDIO")
                                <=> (DOMAIN given.els[kth(j)].wfs
                                        \ {"no_codeword"} # {})

\* An HDAWG8 program with a playWaveDIO and a playWave with a prefetch
C23_Witness ==
    /\ given.fn = "_program_awg"
    /\ Backend(InstrClass(given.awg)) = "HDAWG8Pulsar"
    /\ result # NoResult
    /\ 0 \in result.configured
    /\ \E i, j, p \in DOMAIN result.seqc[0] :
          /\ result.seqc[0][i].op = "playWaveDIO"
          /\ result.seqc[0][j].op = "playWave"
          /\ result.seqc[0][p].op = "prefetch"

\* C24 (as claimed): simplify_name puts '_' for every character that is not
\* alphanumeric and leaves every alphanumeric character as it is, so that
\* the result is as long as the name and two names that differ in an
\* alphanumeric character have different results.
C24_SimplifyName ==
    (given.fn = "simplify_name" /\ result # NoResult) =>
        /\ \A i \in 1..2 :
              LET str == given.names[i]
                  r == result.names[i]
              IN /\ Len(r) = Len(str)
                 /\ \A j \in DOMAIN str :
                       r[j] = IF isalnum(str[j]) THEN str[j] ELSE "_"
        /\ (/\ Len(given.names[1]) = Len(given.names[2])
            /\ \E j \in DOMAIN given.names[1] :
                   /\ given.names[1][j] # given.names[2][j]
                   /\ isalnum(given.names[1][j])
                   /\ isalnum(given.names[2][j]))
              => result.names[1] # result.names[2]

\* C25: when _program_awg has programmed an AWG5014 that has waveforms, the
\* four offsets and the sixteen marker levels of the instrument are what
\* they were before the call, whatever the loaded file had set them to.
C25_LevelsRestored ==
    (given.fn = "_program_awg" /\ TableProduced) =>
        \A par \in AWG5014_offset_pars \cup AWG5014_marker_pars :
            result.levels[par] = given.levels[par]

\* A file was loaded whose offsets and marker levels are not those the
\* instrument had
C25_Witness ==
    /\ given.fn = "_program_awg"
    /\ TableProduced
    /\ \A par \in AWG5014_offset_pars \cup AWG5014_marker_pars :
          given.file_levels[par] # given.levels[par]

\* C26 (as claimed): between calls the prequeried state is off, however the
\* last call of program_awgs ended, and a clock read between calls asks the
\* hardware.
C26_PrequeriedOffAfterCall ==
    pc = "idle" =>
        /\ ~awgs_prequeried_state
        /\ (query.par[1] = "clock" /\ query.src # "error")
              => query.src = "hardware"

\* C27 (as claimed): when a call of stop() has ended, no AWG that is still
\* active is left playing: whatever calls of program_awgs, start and stop
\* came before, stop() has stopped every AWG that a start() started and no
\* stop() stopped since.  (An AWG can be playing and not active only when its
\* active flag was changed after it was started.)
C27_StopStopsStarted ==
    (pc = "idle" /\ last.op = "stop") =>
        \A d \in playing : ~active[d]

\* C28 (as claimed): between calls every channel of the registry has one
\* AWG, and that AWG is among the registered AWGs; the channels and the map
\* from channels to AWGs cover each other, so a registration that failed
\* has left no channel behind.
C28_RegistryConsistent ==
    pc = "idle" =>
        /\ DOMAIN chan_awg = channels
        /\ \A n \in channels : chan_awg[n] \in awgs

\* ------------------------------------------------------------------------
\* Termination of start().  time.time() is read at every turn of the polling
\* loop and a turn that finds the AWG not running sleeps 0.1 s
\* (`time.sleep(0.1)'), so the clock moves on while the loop waits: a turn
\* that finds the AWG not running and in which the rounded time advances is
\* taken again and again as long as the loop runs.  Whether the AWG ever
\* runs is the hardware's choice and nothing is assumed about it.  A call
\* that can leave the loop, or start the master, does so.
\* ------------------------------------------------------------------------
StartPollSleeping ==
    \E advance \in 1..MaxAdvance : start_poll(FALSE, advance)

NextStart ==
    \/ RegisterDefault
    \/ ProgramBegin
    \/ AWGs_prequeried_True
    \/ Resolve
    \/ program_awgs_step
    \/ program_awgs_end
    \/ start_begin
    \/ StartPoll
    \/ start_next
    \/ start_master

StartFairness ==
    /\ WF_vars(StartPollSleeping)
    /\ WF_vars(start_next)
    /\ WF_vars(start_master)

SpecStart == Init /\ [][NextStart]_vars /\ StartFairness

\* C29: every call of start() that enters the polling loop ends: it either
\* starts the master and returns, or raises the timeout error.
C29_StartTerminates ==
    (pc = "poll") ~>
        (pc = "idle" /\ last.op = "start" /\ last.err \in {"ok", ErrStart})

\* A call of start() with a slave has ended: the slave answered after the
\* loop had waited, and the master was started last
C29_Witness ==
    /\ pc = "idle"
    /\ last.op = "start"
    /\ last.err = "ok"
    /\ Len(started) >= 2
    /\ reported # {}
    /\ started[Len(started)] = master_awg

\* C30 (as claimed): a call of start() that ends with the timeout error for
\* a slave has queried that slave's running state at least once and never
\* saw it answer True; and no AWG's start() is invoked twice by one call.
C30_TimeoutOnlyAfterPolling ==
    last.op = "start" =>
        /\ (pc = "idle" /\ last.err = ErrStart) =>
               (last.awg \in polled /\ last.awg \notin reported)
        /\ \A i, j \in 1..Len(started) : started[i] = started[j] => i = j

====
